---------------------------- MODULE Spec2Model ----------------------------
(***************************************************************************)
(* Model of pomdot (src/pomdot.py): a terminal focus/rest interval timer.  *)
(*                                                                         *)
(* Text is modelled as a sequence of one-character strings, so that the    *)
(* parsers (strip, lower, regular-expression match, int) are computed the  *)
(* way the code computes them.  A config file is modelled by the TOML      *)
(* document it parses to (or by "malformed" / "absent").                   *)
(***************************************************************************)
EXTENDS Integers, Sequences, FiniteSets, TLC

VARIABLES
    file,             \* the config file at config_path
    pc,               \* position of the process inside main() / run_stage()
    args,             \* the command line (sys.argv as argparse declares it)
    ns,               \* argparse namespace values after type conversion
    cli_time_values,  \* normalize_time_values(args.time)
    config,           \* load_config(config_path)
    settings,         \* time_values, compact, no_bell, bar_width
    sources,          \* provenance of each of the four fields
    timer,            \* focus_seconds, rest_seconds, repeats
    stages,           \* the list of (stage_name, stage_seconds)
    index,            \* number of stages the for loop of main() has finished
    clock,            \* time.monotonic(), in ticks
    start_monotonic,  \* run_stage: the monotonic reference of the stage
    remaining,        \* run_stage: remaining seconds computed by the last render
    line,             \* the countdown line currently on the terminal
    out,              \* terminal events other than countdown redraws
    stdout,           \* the report printed by --status / --save-config / --write-config
    stderr,           \* the error text of a failed invocation
    exit_status,      \* exit status of the process
    file_before,      \* the config file as the running process found it
    sigint,           \* a KeyboardInterrupt was raised in this process
    value,            \* input of a direct parser call
    result            \* result of a direct parser call

vars == <<file, pc, args, ns, cli_time_values, config, settings, sources, timer,
          stages, index, clock, start_monotonic, remaining, line, out, stdout,
          stderr, exit_status, file_before, sigint, value, result>>

\* ------------------------------------------------------------------------
\* Bounds of the model
\* ------------------------------------------------------------------------

\* Resolution of the monotonic clock: ticks per second.
TicksPerSecond == 2

\* Largest extra delay (in ticks) of one clock read or one sleep.
MaxDelay == 1

\* Horizon of the observed run, in seconds of monotonic time.
MaxClockSeconds == 4

\* Longest text handed to a direct parser call.
MaxLen == 3

MaxClock == MaxClockSeconds * TicksPerSecond

\* ------------------------------------------------------------------------
\* Optional values (Python None)
\* ------------------------------------------------------------------------

None == [some |-> FALSE]

Some(x) == [some |-> TRUE, v |-> x]

\* ------------------------------------------------------------------------
\* Text
\* ------------------------------------------------------------------------

Digit == {"0", "1", "2", "3", "4", "5", "6", "7", "8", "9"}

Whitespace == {" "}

DigitValue(c) ==
    CASE c = "0" -> 0 [] c = "1" -> 1 [] c = "2" -> 2 [] c = "3" -> 3
      [] c = "4" -> 4 [] c = "5" -> 5 [] c = "6" -> 6 [] c = "7" -> 7
      [] c = "8" -> 8 [] c = "9" -> 9

DigitChar(d) ==
    CASE d = 0 -> "0" [] d = 1 -> "1" [] d = 2 -> "2" [] d = 3 -> "3"
      [] d = 4 -> "4" [] d = 5 -> "5" [] d = 6 -> "6" [] d = 7 -> "7"
      [] d = 8 -> "8" [] d = 9 -> "9"

RECURSIVE LStrip(_)
LStrip(s) ==
    IF s # <<>> /\ Head(s) \in Whitespace THEN LStrip(Tail(s)) ELSE s

RECURSIVE RStrip(_)
RStrip(s) ==
    IF s # <<>> /\ s[Len(s)] \in Whitespace
    THEN RStrip(SubSeq(s, 1, Len(s) - 1))
    ELSE s

\* str.strip()
Strip(s) == RStrip(LStrip(s))

LowerChar(c) ==
    CASE c = "S" -> "s" [] c = "M" -> "m" [] c = "T" -> "t" [] c = "F" -> "f"
      [] OTHER -> c

\* str.lower()
Lower(s) == [i \in 1..Len(s) |-> LowerChar(s[i])]

\* int(text) of a non-empty run of digits
RECURSIVE ToInt(_)
ToInt(s) ==
    IF s = <<>> THEN 0
    ELSE 10 * ToInt(SubSeq(s, 1, Len(s) - 1)) + DigitValue(s[Len(s)])

RECURSIVE NatToStr(_)
NatToStr(n) ==
    IF n < 10 THEN <<DigitChar(n)>>
    ELSE Append(NatToStr(n \div 10), DigitChar(n % 10))

\* str(n) of an int
IntToStr(n) == IF n < 0 THEN <<"-">> \o NatToStr(-n) ELSE NatToStr(n)

\* length of the longest prefix of s made of digits: the greedy match of \d+
RECURSIVE DigitPrefix(_)
DigitPrefix(s) ==
    IF s # <<>> /\ Head(s) \in Digit THEN 1 + DigitPrefix(Tail(s)) ELSE 0

\* re.fullmatch(r"\d+", text)
AllDigits(s) == s # <<>> /\ DigitPrefix(s) = Len(s)

\* str.split(",")
RECURSIVE Split(_)
Split(s) ==
    IF \E i \in 1..Len(s) : s[i] = ","
    THEN LET i == CHOOSE k \in 1..Len(s) :
                      s[k] = "," /\ \A j \in 1..(k - 1) : s[j] # ","
         IN  <<SubSeq(s, 1, i - 1)>> \o Split(SubSeq(s, i + 1, Len(s)))
    ELSE <<s>>

\* ------------------------------------------------------------------------
\* Program constants
\* ------------------------------------------------------------------------

DEFAULT_BAR_WIDTH == 30

MIN_BAR_WIDTH == 10

BUILTIN_DEFAULT_TIME == << <<"3", "0">>, <<"5">>, <<"0">> >>

BUILTIN_DEFAULT_COMPACT == FALSE

BUILTIN_DEFAULT_NO_BELL == FALSE

\* exit status of parser.error()
EXIT_ARGUMENT_ERROR == 2

\* exit status of an exception that leaves main() uncaught
EXIT_UNCAUGHT == 1

\* exit status returned on KeyboardInterrupt
EXIT_CANCELLED == 130

EXIT_SUCCESS == 0

\* ------------------------------------------------------------------------
\* Duration/value parsers.  A parser returns [ok, val, msg]: the value, or
\* the message of the argparse.ArgumentTypeError it raises.
\* ------------------------------------------------------------------------

Ok(n) == [ok |-> TRUE, val |-> n, msg |-> ""]

ArgumentTypeError(m) == [ok |-> FALSE, val |-> 0, msg |-> m]

\* parse_duration with a bare number read as seconds
parse_duration_bare_is_seconds(text_in) ==
    LET text   == Lower(Strip(text_in))
        n      == DigitPrefix(text)
        group2 == SubSeq(text, n + 1, Len(text))
        amount == ToInt(SubSeq(text, 1, n))
        unit   == IF group2 = <<>> THEN "s" ELSE group2[1]
    IN  IF ~(n >= 1 /\ group2 \in {<<>>, <<"s">>, <<"m">>})
        THEN ArgumentTypeError("invalid time format. Use N, Ns, or Nm (examples: 25, 25m, 1500s).")
        ELSE IF amount <= 0
        THEN ArgumentTypeError("time must be greater than zero.")
        ELSE IF unit = "m" THEN Ok(amount * 60) ELSE Ok(amount)

parse_duration(text_in) ==
    LET text   == Lower(Strip(text_in))
        n      == DigitPrefix(text)
        group2 == SubSeq(text, n + 1, Len(text))
        amount == ToInt(SubSeq(text, 1, n))
        unit   == IF group2 = <<>> THEN "m" ELSE group2[1]
    IN  IF ~(n >= 1 /\ group2 \in {<<>>, <<"s">>, <<"m">>})
        THEN ArgumentTypeError("invalid time format. Use N, Ns, or Nm (examples: 25, 25m, 1500s).")
        ELSE IF amount <= 0
        THEN ArgumentTypeError("time must be greater than zero.")
        ELSE IF unit = "m" THEN Ok(amount * 60) ELSE Ok(amount)

parse_repeat(text_in) ==
    LET text == Strip(text_in)
    IN  IF ~AllDigits(text)
        THEN ArgumentTypeError("repeat count must be a non-negative integer.")
        ELSE IF ToInt(text) < 0
        THEN ArgumentTypeError("repeat count must be zero or greater.")
        ELSE Ok(ToInt(text))

parse_bar_width(text_in) ==
    LET text == Strip(text_in)
    IN  IF ~AllDigits(text)
        THEN ArgumentTypeError("bar width must be an integer.")
        ELSE IF ToInt(text) < MIN_BAR_WIDTH
        THEN ArgumentTypeError("bar width must be at least 10.")
        ELSE Ok(ToInt(text))

format_hhmmss(seconds) ==
    LET hours   == seconds \div 3600
        rem     == seconds % 3600
    IN  <<hours, rem \div 60, rem % 60>>

\* ------------------------------------------------------------------------
\* Config store.  A TOML value is [type |-> value]; a config file
\* is "absent", "malformed" (tomllib raises TOMLDecodeError) or a table.
\* ------------------------------------------------------------------------

TStr(s) == [str |-> s]

TInt(n) == [int |-> n]

TBool(b) == [bool |-> b]

TFloat(n) == [float |-> n]

TArray(a) == [array |-> a]

\* the TOML type of a value
TypeOf(x) == CHOOSE t \in DOMAIN x : TRUE

Absent == [kind |-> "absent"]

Malformed == [kind |-> "malformed"]

Table(d) == [kind |-> "table", data |-> d]

\* isinstance(x, int): a Python bool is an int
IsInt(x) == TypeOf(x) \in {"int", "bool"}

\* str(x) of a TOML string, integer or boolean
PyStr(x) ==
    CASE TypeOf(x) = "str"  -> x.str
      [] TypeOf(x) = "int"  -> IntToStr(x.int)
      [] TypeOf(x) = "bool" -> IF x.bool THEN <<"T", "r", "u", "e">>
                                ELSE <<"F", "a", "l", "s", "e">>

\* The document tomllib reads back from the text render_config_text returns.
render_config_text(time_values, compact, no_bell, bar_width) ==
    Table([k \in {"time", "compact", "no_bell", "bar_width"} |->
        CASE k = "time"      -> TArray([i \in 1..3 |-> TStr(time_values[i])])
          [] k = "compact"   -> TBool(compact)
          [] k = "no_bell"   -> TBool(no_bell)
          [] k = "bar_width" -> TInt(bar_width)])

\* write_config without the existence check
write_config_always_overwrites(path_file, force) ==
    [ok |-> TRUE,
     file |-> render_config_text(BUILTIN_DEFAULT_TIME, BUILTIN_DEFAULT_COMPACT,
                                 BUILTIN_DEFAULT_NO_BELL, DEFAULT_BAR_WIDTH),
     msg |-> ""]

\* write_config returns [ok, file, msg]: FileExistsError when ok is FALSE.
write_config(path_file, force) ==
    IF path_file # Absent /\ ~force
    THEN [ok |-> FALSE, file |-> path_file, msg |-> "config file already exists"]
    ELSE [ok |-> TRUE,
          file |-> render_config_text(BUILTIN_DEFAULT_TIME, BUILTIN_DEFAULT_COMPACT,
                                      BUILTIN_DEFAULT_NO_BELL, DEFAULT_BAR_WIDTH),
          msg |-> ""]

\* save_config that keeps a file already there
save_config_keeps_existing(path_file, time_values, compact, no_bell, bar_width) ==
    IF path_file # Absent THEN path_file
    ELSE render_config_text(time_values, compact, no_bell, bar_width)

save_config(path_file, time_values, compact, no_bell, bar_width) ==
    render_config_text(time_values, compact, no_bell, bar_width)

EmptyConfig == [k \in {} |-> TRUE]

Loaded(cfg) == [kind |-> "ok", cfg |-> cfg, msg |-> ""]

ValueError(m) == [kind |-> "ValueError", cfg |-> EmptyConfig, msg |-> m]

\* an argparse.ArgumentTypeError raised by parse_bar_width inside load_config
LoadArgumentTypeError(m) ==
    [kind |-> "ArgumentTypeError", cfg |-> EmptyConfig, msg |-> m]

allowed_keys == {"time", "compact", "no_bell", "bar_width"}

load_config(path_file) ==
    IF path_file = Absent THEN Loaded(EmptyConfig)
    ELSE IF path_file = Malformed THEN ValueError("invalid TOML in config file")
    ELSE
    LET data == path_file.data
        keys == DOMAIN data
        time_ok  == TypeOf(data["time"]) = "array" /\ Len(data["time"].array) = 3
        items_ok == \A i \in 1..3 : TypeOf(data["time"].array[i]) \in {"str", "int", "bool"}
        width    == parse_bar_width(PyStr(data["bar_width"]))
        validated == [k \in keys |->
            CASE k = "time"      -> [i \in 1..3 |-> PyStr(data["time"].array[i])]
              [] k = "compact"   -> data["compact"].bool
              [] k = "no_bell"   -> data["no_bell"].bool
              [] k = "bar_width" -> width.val]
    IN  IF keys \ allowed_keys # {}
        THEN ValueError("unknown config key(s)")
        ELSE IF "time" \in keys /\ ~time_ok
        THEN ValueError("invalid 'time': expected an array with 3 values (focus, rest, repeat).")
        ELSE IF "time" \in keys /\ ~items_ok
        THEN ValueError("invalid 'time': each value must be a string or integer.")
        ELSE IF "compact" \in keys /\ TypeOf(data["compact"]) # "bool"
        THEN ValueError("invalid 'compact': expected true or false.")
        ELSE IF "no_bell" \in keys /\ TypeOf(data["no_bell"]) # "bool"
        THEN ValueError("invalid 'no_bell': expected true or false.")
        ELSE IF "bar_width" \in keys /\ ~IsInt(data["bar_width"])
        THEN ValueError("invalid 'bar_width': expected an integer.")
        ELSE IF "bar_width" \in keys /\ ~width.ok
        THEN LoadArgumentTypeError(width.msg)
        ELSE Loaded(validated)

normalize_time_values(raw_time) ==
    LET values == IF Len(raw_time) = 1 /\ \E i \in 1..Len(raw_time[1]) : raw_time[1][i] = ","
                  THEN LET parts == Split(raw_time[1])
                       IN  [i \in 1..Len(parts) |-> Strip(parts[i])]
                  ELSE [i \in 1..Len(raw_time) |-> Strip(raw_time[i])]
    IN  IF raw_time = <<>> THEN [ok |-> TRUE, values |-> None]
        ELSE IF Len(values) # 3 \/ \E i \in 1..Len(values) : values[i] = <<>>
        THEN [ok |-> FALSE, values |-> None]
        ELSE [ok |-> TRUE, values |-> Some(values)]

\* resolve_with_source with the config file taking precedence over the CLI
resolve_with_source_config_first(cli_value, cfg, key, default_value) ==
    IF key \in DOMAIN cfg THEN <<cfg[key], "config">>
    ELSE IF cli_value.some THEN <<cli_value.v, "cli">>
    ELSE <<default_value, "default">>

resolve_with_source(cli_value, cfg, key, default_value) ==
    IF cli_value.some THEN <<cli_value.v, "cli">>
    ELSE IF key \in DOMAIN cfg THEN <<cfg[key], "config">>
    ELSE <<default_value, "default">>

\* ------------------------------------------------------------------------
\* Inputs: command lines and config files an invocation can meet
\* ------------------------------------------------------------------------

\* -t/--time tokens (nargs="+"; <<>> stands for the option not given)
CliTimes ==
    { <<>>,
      << <<"1", "s", ",", " ", "1", "s", ",", "1">> >>,
      << <<"1", "s">>, <<"2", "S">>, <<"0">> >>,
      << <<"1", "s">>, <<"2", "s">> >>,
      << <<"0">>, <<"1", "s">>, <<"0">> >> }

CliBarWidths == { None, Some(<<"2", "0">>), Some(<<"9">>) }

TimerOptions ==
    [ time      : CliTimes,
      compact   : {None, Some(TRUE), Some(FALSE)},
      no_bell   : {None, Some(TRUE), Some(FALSE)},
      bar_width : CliBarWidths ]

\* number of timer options given on the command line
Given(o) ==
    (IF o.time # <<>> THEN 1 ELSE 0) + (IF o.compact.some THEN 1 ELSE 0)
    + (IF o.no_bell.some THEN 1 ELSE 0) + (IF o.bar_width.some THEN 1 ELSE 0)

\* command lines with at most one timer option, or with all four
FewOrAllOptions == { o \in TimerOptions : Given(o) <= 1 \/ Given(o) = 4 }

ModeFlags ==
    [ write_config : BOOLEAN, status : BOOLEAN, save_config : BOOLEAN,
      force : BOOLEAN ]

\* the two modes that resolve the options and exit: --status, --save-config
ReportModes == { m \in ModeFlags : ~m.write_config /\ ~m.force
                                    /\ m.status # m.save_config }

CommandLine(o, m) ==
    [ time         |-> o.time,
      compact      |-> o.compact,
      no_bell      |-> o.no_bell,
      bar_width    |-> o.bar_width,
      write_config |-> m.write_config,
      status       |-> m.status,
      save_config  |-> m.save_config,
      force        |-> m.force ]

\* every option combination in --status and --save-config mode; every flag
\* combination (the timer run included) with no, one or all four options
ArgSpace ==
    { CommandLine(o, m) : o \in TimerOptions, m \in ReportModes }
    \cup { CommandLine(o, m) : o \in FewOrAllOptions, m \in ModeFlags }

ConfigTime == TArray(<< TStr(<<" ", "2", "S">>), TStr(<<"1", "s">>), TInt(0) >>)

ConfigValue(k) ==
    CASE k = "time"      -> ConfigTime
      [] k = "compact"   -> TBool(TRUE)
      [] k = "no_bell"   -> TBool(TRUE)
      [] k = "bar_width" -> TInt(15)

\* valid files: every subset of the four keys
ValidFiles == { Table([k \in K |-> ConfigValue(k)]) : K \in SUBSET allowed_keys }

InvalidFiles ==
    { Malformed,
      Table([k \in {"foo"} |-> TInt(1)]),
      Table([k \in {"time"} |-> TArray(<< TStr(<<"1", "s">>), TStr(<<"1", "s">>) >>)]),
      Table([k \in {"time"} |-> TStr(<<"1", "s">>)]),
      Table([k \in {"time"} |-> TArray(<< TFloat(1), TStr(<<"1", "s">>), TInt(0) >>)]),
      Table([k \in {"time"} |-> TArray(<< TBool(TRUE), TStr(<<"1", "s">>), TInt(0) >>)]),
      Table([k \in {"time"} |-> TArray(<< TInt(0), TStr(<<"1", "s">>), TInt(0) >>)]),
      Table([k \in {"time"} |-> TArray(<< TInt(1), TStr(<<"1", "s">>), TInt(-1) >>)]),
      Table([k \in {"compact"} |-> TInt(1)]),
      Table([k \in {"no_bell"} |-> TStr(<<"y", "e", "s">>)]),
      Table([k \in {"bar_width"} |-> TStr(<<"1", "5">>)]),
      Table([k \in {"bar_width"} |-> TInt(5)]),
      Table([k \in {"bar_width"} |-> TInt(-5)]),
      Table([k \in {"bar_width"} |-> TBool(TRUE)]) }

InitialFiles == {Absent} \cup ValidFiles \cup InvalidFiles

\* ------------------------------------------------------------------------
\* Terminal events
\* ------------------------------------------------------------------------

Ev(e, n) == [ev |-> e, arg |-> n]

\* ------------------------------------------------------------------------
\* The process: main()
\* ------------------------------------------------------------------------

\* no process yet: the user is at the shell prompt
Init ==
    /\ file \in InitialFiles
    /\ args = None
    /\ pc = "shell"
    /\ ns = None
    /\ cli_time_values = None
    /\ config = None
    /\ settings = None
    /\ sources = None
    /\ timer = None
    /\ stages = <<>>
    /\ index = 0
    /\ clock = 0
    /\ start_monotonic = 0
    /\ remaining = None
    /\ line = None
    /\ out = <<>>
    /\ stdout = None
    /\ stderr = ""
    /\ exit_status = None
    /\ file_before = file
    /\ sigint = FALSE
    /\ value = <<>>
    /\ result = None

Exit(status, err) ==
    /\ pc' = "exit"
    /\ exit_status' = Some(status)
    /\ stderr' = err

\* parser.error(message): usage and message on stderr, exit status 2
parser_error(message) == Exit(EXIT_ARGUMENT_ERROR, message)

\* lines 335-338: parse_args (with type=parse_bar_width) and normalize_time_values
ParseArgs ==
    /\ pc = "parse_args"
    /\ LET width == IF args.bar_width.some
                    THEN parse_bar_width(args.bar_width.v)
                    ELSE Ok(0)
           norm  == normalize_time_values(args.time)
           space == [args EXCEPT !.bar_width =
                        IF args.bar_width.some THEN Some(width.val) ELSE None]
       IN  IF ~width.ok
           THEN /\ parser_error(width.msg)
                /\ UNCHANGED <<ns, cli_time_values>>
           ELSE IF ~norm.ok
           THEN /\ parser_error("-t/--time must be either three values or one comma-separated value")
                /\ ns' = space
                /\ UNCHANGED cli_time_values
           ELSE /\ ns' = space
                /\ cli_time_values' = norm.values
                /\ pc' = "check_flags"
                /\ UNCHANGED <<exit_status, stderr>>
    /\ UNCHANGED <<file, args, config, settings, sources, timer, stages, index,
                   clock, start_monotonic, remaining, line, out, stdout,
                   file_before, sigint, value, result>>

\* lines 340-350: mutually exclusive flags
CheckFlags ==
    /\ pc = "check_flags"
    /\ IF ns.force /\ ~ns.write_config
       THEN parser_error("--force can only be used with --write-config")
       ELSE IF ns.write_config /\ ns.save_config
       THEN parser_error("--write-config and --save-config cannot be used together")
       ELSE IF ns.status /\ ns.write_config
       THEN parser_error("--status and --write-config cannot be used together")
       ELSE IF ns.status /\ ns.save_config
       THEN parser_error("--status and --save-config cannot be used together")
       ELSE /\ pc' = IF ns.write_config THEN "write_config" ELSE "load_config"
            /\ UNCHANGED <<exit_status, stderr>>
    /\ UNCHANGED <<file, args, ns, cli_time_values, config, settings, sources,
                   timer, stages, index, clock, start_monotonic, remaining,
                   line, out, stdout, file_before, sigint, value, result>>

\* lines 352-365: --write-config
WriteConfigMode ==
    /\ pc = "write_config"
    /\ LET written == write_config(file, ns.force)
       IN  IF cli_time_values.some \/ ns.compact.some \/ ns.no_bell.some
              \/ ns.bar_width.some
           THEN /\ parser_error("--write-config cannot be combined with timer options")
                /\ UNCHANGED <<file, stdout>>
           ELSE IF ~written.ok
           THEN /\ parser_error(written.msg)
                /\ UNCHANGED <<file, stdout>>
           ELSE /\ file' = written.file
                /\ stdout' = Some([report |-> "Wrote config"])
                /\ Exit(EXIT_SUCCESS, "")
    /\ UNCHANGED <<args, ns, cli_time_values, config, settings, sources,
                   timer, stages, index, clock, start_monotonic, remaining,
                   line, out, file_before, sigint, value, result>>

\* lines 367-370: load_config; only ValueError is caught
LoadConfig ==
    /\ pc = "load_config"
    /\ LET loaded == load_config(file)
       IN  IF loaded.kind = "ValueError"
           THEN /\ parser_error(loaded.msg)
                /\ UNCHANGED config
           ELSE IF loaded.kind = "ArgumentTypeError"
           THEN /\ Exit(EXIT_UNCAUGHT, "Traceback (most recent call last)")
                /\ UNCHANGED config
           ELSE /\ config' = loaded.cfg
                /\ pc' = "resolve"
                /\ UNCHANGED <<exit_status, stderr>>
    /\ UNCHANGED <<file, args, ns, cli_time_values, settings, sources, timer,
                   stages, index, clock, start_monotonic, remaining, line, out,
                   stdout, file_before, sigint, value, result>>

\* lines 372-413: the four fields and their sources
Resolve ==
    /\ pc = "resolve"
    /\ IF ns.save_config
       THEN /\ settings' =
                 [ time_values |-> IF cli_time_values.some THEN cli_time_values.v
                                   ELSE BUILTIN_DEFAULT_TIME,
                   compact     |-> IF ns.compact.some THEN ns.compact.v
                                   ELSE BUILTIN_DEFAULT_COMPACT,
                   no_bell     |-> IF ns.no_bell.some THEN ns.no_bell.v
                                   ELSE BUILTIN_DEFAULT_NO_BELL,
                   bar_width   |-> IF ns.bar_width.some THEN ns.bar_width.v
                                   ELSE DEFAULT_BAR_WIDTH ]
            /\ sources' =
                 [ time      |-> IF cli_time_values.some THEN "cli" ELSE "default",
                   compact   |-> IF ns.compact.some THEN "cli" ELSE "default",
                   no_bell   |-> IF ns.no_bell.some THEN "cli" ELSE "default",
                   bar_width |-> IF ns.bar_width.some THEN "cli" ELSE "default" ]
       ELSE LET time_r      == resolve_with_source(cli_time_values, config, "time",
                                                   BUILTIN_DEFAULT_TIME)
                compact_r   == resolve_with_source(ns.compact, config, "compact",
                                                   BUILTIN_DEFAULT_COMPACT)
                no_bell_r   == resolve_with_source(ns.no_bell, config, "no_bell",
                                                   BUILTIN_DEFAULT_NO_BELL)
                bar_width_r == resolve_with_source(ns.bar_width, config, "bar_width",
                                                   DEFAULT_BAR_WIDTH)
            IN  /\ settings' = [ time_values |-> time_r[1],
                                 compact     |-> compact_r[1],
                                 no_bell     |-> no_bell_r[1],
                                 bar_width   |-> bar_width_r[1] ]
                /\ sources' = [ time      |-> time_r[2],
                                compact   |-> compact_r[2],
                                no_bell   |-> no_bell_r[2],
                                bar_width |-> bar_width_r[2] ]
    /\ pc' = "validate"
    /\ UNCHANGED <<file, args, ns, cli_time_values, config, timer, stages, index,
                   clock, start_monotonic, remaining, line, out, stdout, stderr,
                   exit_status, file_before, sigint, value, result>>

\* lines 415-423: validation of the resolved values
Validate ==
    /\ pc = "validate"
    /\ LET focus  == parse_duration(settings.time_values[1])
           rest   == parse_duration(settings.time_values[2])
           repeat == parse_repeat(settings.time_values[3])
           width  == parse_bar_width(IntToStr(settings.bar_width))
       IN  IF ~focus.ok THEN parser_error(focus.msg) /\ UNCHANGED <<timer, settings>>
           ELSE IF ~rest.ok THEN parser_error(rest.msg) /\ UNCHANGED <<timer, settings>>
           ELSE IF ~repeat.ok THEN parser_error(repeat.msg) /\ UNCHANGED <<timer, settings>>
           ELSE IF ~width.ok THEN parser_error(width.msg) /\ UNCHANGED <<timer, settings>>
           ELSE /\ timer' = [ focus_seconds |-> focus.val,
                              rest_seconds  |-> rest.val,
                              repeats       |-> repeat.val,
                              normalized_time_values |->
                                  [i \in 1..3 |-> Strip(settings.time_values[i])] ]
                /\ settings' = [settings EXCEPT !.bar_width = width.val]
                /\ pc' = IF ns.status THEN "status"
                         ELSE IF ns.save_config THEN "save_config"
                         ELSE "build_stages"
                /\ UNCHANGED <<exit_status, stderr>>
    /\ UNCHANGED <<file, args, ns, cli_time_values, config, sources, stages,
                   index, clock, start_monotonic, remaining, line, out, stdout,
                   file_before, sigint, value, result>>

\* what --status and --save-config print
Report(title, with_sources) ==
    [ report    |-> title,
      time      |-> timer.normalized_time_values,
      compact   |-> settings.compact,
      no_bell   |-> settings.no_bell,
      bar_width |-> settings.bar_width,
      sources   |-> IF with_sources THEN Some(sources) ELSE None ]

\* lines 425-435: --status
StatusMode ==
    /\ pc = "status"
    /\ stdout' = Some(Report("status", TRUE))
    /\ Exit(EXIT_SUCCESS, "")
    /\ UNCHANGED <<file, args, ns, cli_time_values, config, settings, sources,
                   timer, stages, index, clock, start_monotonic, remaining,
                   line, out, file_before, sigint, value, result>>

\* lines 437-444: --save-config
SaveConfigMode ==
    /\ pc = "save_config"
    /\ file' = save_config(file, timer.normalized_time_values, settings.compact,
                           settings.no_bell, settings.bar_width)
    /\ stdout' = Some(Report("Saved config", FALSE))
    /\ Exit(EXIT_SUCCESS, "")
    /\ UNCHANGED <<args, ns, cli_time_values, config, settings, sources,
                   timer, stages, index, clock, start_monotonic, remaining,
                   line, out, file_before, sigint, value, result>>

\* the stage name f"{kind} {cycle}/{total_cycles}"
StageName(kind, cycle, total_cycles) ==
    [kind |-> kind, cycle |-> cycle, total |-> total_cycles]

\* the loop of lines 448-450, from `cycle` on
RECURSIVE AppendCycles(_, _, _, _, _)
AppendCycles(acc, cycle, total_cycles, focus_seconds, rest_seconds) ==
    IF cycle > total_cycles THEN acc
    ELSE AppendCycles(
             acc \o << <<StageName("Focus", cycle, total_cycles), focus_seconds>>,
                       <<StageName("Rest", cycle, total_cycles), rest_seconds>> >>,
             cycle + 1, total_cycles, focus_seconds, rest_seconds)

\* the stage list without the base cycle
BuildStageList_repeats_only(focus_seconds, rest_seconds, repeats) ==
    AppendCycles(<<>>, 1, repeats, focus_seconds, rest_seconds)

\* lines 446-450
BuildStageList(focus_seconds, rest_seconds, repeats) ==
    AppendCycles(<<>>, 1, repeats + 1, focus_seconds, rest_seconds)

BuildStages ==
    /\ pc = "build_stages"
    /\ stages' = BuildStageList(timer.focus_seconds, timer.rest_seconds, timer.repeats)
    /\ pc' = "run_begin"
    /\ UNCHANGED <<file, args, ns, cli_time_values, config, settings, sources,
                   timer, index, clock, start_monotonic, remaining, line, out,
                   stdout, stderr, exit_status, file_before, sigint, value, result>>

\* lines 453-454: banner and cursor-hide, inside the try
RunBegin ==
    /\ pc = "run_begin"
    /\ out' = out \o <<Ev("banner", 0), Ev("hide", 0)>>
    /\ index' = 0
    /\ pc' = "for_stage"
    /\ UNCHANGED <<file, args, ns, cli_time_values, config, settings, sources,
                   timer, stages, clock, start_monotonic, remaining, line,
                   stdout, stderr, exit_status, file_before, sigint, value, result>>

\* ------------------------------------------------------------------------
\* run_stage()
\* ------------------------------------------------------------------------

\* the header of a stage (lines 237-242)
StageHeader(compact, number) ==
    IF compact THEN Ev("blank", number) ELSE Ev("header", number)

\* lines 455-463 and 233-242: the for loop enters run_stage for stages[index]
StageBegin ==
    /\ pc = "for_stage"
    /\ index < Len(stages)
    /\ \E d \in 0..MaxDelay :
          /\ clock + d <= MaxClock
          /\ clock' = clock + d
    /\ start_monotonic' = clock'
    /\ out' = Append(out, StageHeader(settings.compact, index + 1))
    /\ remaining' = None
    /\ line' = None
    /\ pc' = "render"
    /\ UNCHANGED <<file, args, ns, cli_time_values, config, settings, sources,
                   timer, stages, index, stdout, stderr, exit_status, file_before, sigint,
                   value, result>>

\* int(time.monotonic() - start_monotonic)
Elapsed(now, start) == (now - start) \div TicksPerSecond

\* remaining time without the clamp at 0
Remaining_unclamped(total_seconds, elapsed) == total_seconds - elapsed

\* line 246
Remaining(total_seconds, elapsed) ==
    IF total_seconds - elapsed > 0 THEN total_seconds - elapsed ELSE 0

\* line 251: the loop ends at this render
LoopEnds(rem) == rem = 0

\* the bell rung at the end of every stage
RingsBell_every_stage(ring_transition_bell, is_last_stage) == ring_transition_bell

\* line 252
RingsBell(ring_transition_bell, is_last_stage) ==
    ring_transition_bell /\ ~is_last_stage

\* lines 245-254 and 257: one iteration up to the sleep, or up to the return
Render ==
    /\ pc = "render"
    /\ \E d \in 0..MaxDelay :
          /\ clock + d <= MaxClock
          /\ clock' = clock + d
    /\ LET stage_name    == stages[index + 1][1]
           total_seconds == stages[index + 1][2]
           rem == Remaining(total_seconds, Elapsed(clock', start_monotonic))
           is_last_stage == (index = Len(stages) - 1)
       IN  /\ remaining' = Some(rem)
           /\ line' = Some([stage |-> stage_name, remaining |-> format_hhmmss(rem)])
           /\ IF LoopEnds(rem)
              THEN /\ out' = out
                          \o (IF RingsBell(~settings.no_bell, is_last_stage)
                              THEN <<Ev("bell", index + 1)>> ELSE <<>>)
                          \o <<Ev("newline", index + 1)>>
                   /\ index' = index + 1
                   /\ pc' = "for_stage"
              ELSE /\ pc' = "sleep"
                   /\ UNCHANGED <<out, index>>
    /\ UNCHANGED <<file, args, ns, cli_time_values, config, settings, sources,
                   timer, stages, start_monotonic, stdout, stderr, exit_status,
                   file_before, sigint, value, result>>

\* line 255: time.sleep(1) lasts one second or longer
Sleep ==
    /\ pc = "sleep"
    /\ \E d \in 0..MaxDelay :
          /\ clock + TicksPerSecond + d <= MaxClock
          /\ clock' = clock + TicksPerSecond + d
    /\ pc' = "render"
    /\ UNCHANGED <<file, args, ns, cli_time_values, config, settings, sources,
                   timer, stages, index, start_monotonic, remaining, line, out,
                   stdout, stderr, exit_status, file_before, sigint, value, result>>

\* positions inside the try block of lines 452-463
InTry == {"run_begin", "for_stage", "render", "sleep"}

\* a KeyboardInterrupt caught around one stage only: the run goes on
Interrupt_stage_only ==
    /\ pc \in {"render", "sleep"}
    /\ sigint' = TRUE
    /\ out' = out \o <<Ev("cancelled", 0), Ev("newline", index + 1)>>
    /\ index' = index + 1
    /\ pc' = "for_stage"
    /\ UNCHANGED <<file, args, ns, cli_time_values, config, settings, sources,
                   timer, stages, clock, start_monotonic, remaining, line,
                   stdout, stderr, exit_status, file_before, value, result>>

\* a KeyboardInterrupt handled without the finally clause
Interrupt_no_restore ==
    /\ pc \in InTry
    /\ out' = out \o <<Ev("cancelled", 0)>>
    /\ Exit(EXIT_CANCELLED, "")
    /\ sigint' = TRUE
    /\ UNCHANGED <<file, args, ns, cli_time_values, config, settings, sources,
                   timer, stages, index, clock, start_monotonic, remaining,
                   line, stdout, file_before, value, result>>

\* lines 464-468: KeyboardInterrupt raised inside the try block
Interrupt ==
    /\ pc \in InTry
    /\ out' = out \o <<Ev("cancelled", 0), Ev("show", 0)>>
    /\ Exit(EXIT_CANCELLED, "")
    /\ sigint' = TRUE
    /\ UNCHANGED <<file, args, ns, cli_time_values, config, settings, sources,
                   timer, stages, index, clock, start_monotonic, remaining,
                   line, stdout, file_before, value, result>>

\* the completion message of lines 470-473
Completion(no_bell) ==
    IF no_bell THEN <<Ev("done", 0)>> ELSE <<Ev("done", 0), Ev("bell", 0)>>

\* lines 467-474: the for loop is exhausted
Finish ==
    /\ pc = "for_stage"
    /\ index = Len(stages)
    /\ out' = out \o <<Ev("show", 0)>> \o Completion(settings.no_bell)
    /\ Exit(EXIT_SUCCESS, "")
    /\ UNCHANGED <<file, args, ns, cli_time_values, config, settings, sources,
                   timer, stages, index, clock, start_monotonic, remaining,
                   line, stdout, file_before, sigint, value, result>>

\* the user runs the program, on the same config path
Launch ==
    /\ pc = "shell"
    /\ args' \in ArgSpace
    /\ pc' = "parse_args"
    /\ file_before' = file
    /\ UNCHANGED <<file, ns, cli_time_values, config, settings, sources, timer,
                   stages, index, clock, start_monotonic, remaining, line, out,
                   stdout, stderr, exit_status, sigint, value, result>>

\* sys.exit(main()) has ended the process: control is back at the shell
ProcessExit ==
    /\ pc = "exit"
    /\ pc' = "shell"
    /\ args' = None
    /\ ns' = None
    /\ cli_time_values' = None
    /\ config' = None
    /\ settings' = None
    /\ sources' = None
    /\ timer' = None
    /\ stages' = <<>>
    /\ index' = 0
    /\ clock' = 0
    /\ start_monotonic' = 0
    /\ remaining' = None
    /\ line' = None
    /\ out' = <<>>
    /\ stdout' = None
    /\ stderr' = ""
    /\ exit_status' = None
    /\ file_before' = file
    /\ sigint' = FALSE
    /\ UNCHANGED <<file, value, result>>

Next ==
    \/ ParseArgs
    \/ CheckFlags
    \/ WriteConfigMode
    \/ LoadConfig
    \/ Resolve
    \/ Validate
    \/ StatusMode
    \/ SaveConfigMode
    \/ BuildStages
    \/ RunBegin
    \/ StageBegin
    \/ Render
    \/ Sleep
    \/ Interrupt
    \/ Finish
    \/ Launch
    \/ ProcessExit

Spec == Init /\ [][Next]_vars

\* the scheduler keeps running the process: a render or a sleep that can
\* happen does happen; nothing forces the user to interrupt or to launch
SpecFair == Spec /\ WF_vars(StageBegin) /\ WF_vars(Render) /\ WF_vars(Sleep)

\* ------------------------------------------------------------------------
\* Direct calls of parse_duration on arbitrary short texts
\* ------------------------------------------------------------------------

ParseAlphabet == {"0", "1", "2", "6", " ", "s", "m", "S", "M", "x"}

Texts == UNION { [1..n -> ParseAlphabet] : n \in 0..MaxLen }

InitParse ==
    /\ value \in Texts
    /\ result = None
    /\ pc = "call"
    /\ file = Absent
    /\ args = None
    /\ ns = None
    /\ cli_time_values = None
    /\ config = None
    /\ settings = None
    /\ sources = None
    /\ timer = None
    /\ stages = <<>>
    /\ index = 0
    /\ clock = 0
    /\ start_monotonic = 0
    /\ remaining = None
    /\ line = None
    /\ out = <<>>
    /\ stdout = None
    /\ stderr = ""
    /\ exit_status = None
    /\ file_before = Absent
    /\ sigint = FALSE

CallParseDuration ==
    /\ pc = "call"
    /\ result' = Some(parse_duration(value))
    /\ pc' = "return"
    /\ UNCHANGED <<file, args, ns, cli_time_values, config, settings, sources,
                   timer, stages, index, clock, start_monotonic, remaining,
                   line, out, stdout, stderr, exit_status, file_before, sigint,
                   value>>

NextParse == CallParseDuration

SpecParse == InitParse /\ [][NextParse]_vars

\* ------------------------------------------------------------------------
\* Properties
\* ------------------------------------------------------------------------

\* positions of the terminal events e
Positions(e) == {p \in 1..Len(out) : out[p].ev = e}

\* the built-in defaults as the documentation states them
DocDefaultTime == << <<"3", "0">>, <<"5">>, <<"0">> >>

DocDefaults ==
    Table([k \in {"time", "compact", "no_bell", "bar_width"} |->
        CASE k = "time"      -> TArray([i \in 1..3 |-> TStr(DocDefaultTime[i])])
          [] k = "compact"   -> TBool(FALSE)
          [] k = "no_bell"   -> TBool(FALSE)
          [] k = "bar_width" -> TInt(30)])

\* the config file of this invocation holds key k
FileHas(k) == file.kind = "table" /\ k \in DOMAIN file.data

\* ---- C1 ----------------------------------------------------------------

\* value and source each field must resolve to: CLI, then config file, then default
ExpectedTime ==
    IF args.time # <<>> THEN <<cli_time_values.v, "cli">>
    ELSE IF FileHas("time")
    THEN <<[i \in 1..3 |-> PyStr(file.data["time"].array[i])], "config">>
    ELSE <<DocDefaultTime, "default">>

ExpectedCompact ==
    IF args.compact.some THEN <<args.compact.v, "cli">>
    ELSE IF FileHas("compact") THEN <<file.data["compact"].bool, "config">>
    ELSE <<FALSE, "default">>

ExpectedNoBell ==
    IF args.no_bell.some THEN <<args.no_bell.v, "cli">>
    ELSE IF FileHas("no_bell") THEN <<file.data["no_bell"].bool, "config">>
    ELSE <<FALSE, "default">>

ExpectedBarWidth ==
    IF args.bar_width.some THEN <<ns.bar_width.v, "cli">>
    ELSE IF FileHas("bar_width") THEN <<file.data["bar_width"].int, "config">>
    ELSE <<30, "default">>

\* C1: in a timer run and in --status mode each of the four fields resolves,
\* independently of the other three, to the CLI value if supplied, else to the
\* config-file value if the key is present, else to the built-in default, and
\* its recorded source is cli, config or default accordingly; --status prints
\* these values and sources.
C1_Resolution ==
    (settings # None /\ ~args.save_config) =>
        /\ <<settings.time_values, sources.time>> = ExpectedTime
        /\ <<settings.compact, sources.compact>> = ExpectedCompact
        /\ <<settings.no_bell, sources.no_bell>> = ExpectedNoBell
        /\ <<settings.bar_width, sources.bar_width>> = ExpectedBarWidth
        /\ (stdout # None =>
              /\ stdout.v.compact = ExpectedCompact[1]
              /\ stdout.v.no_bell = ExpectedNoBell[1]
              /\ stdout.v.bar_width = ExpectedBarWidth[1]
              /\ stdout.v.sources.v.time = ExpectedTime[2]
              /\ stdout.v.sources.v.compact = ExpectedCompact[2]
              /\ stdout.v.sources.v.no_bell = ExpectedNoBell[2]
              /\ stdout.v.sources.v.bar_width = ExpectedBarWidth[2])

\* a --status report that mixes the three tiers
C1_Witness ==
    /\ pc = "exit"
    /\ args.status
    /\ exit_status = Some(0)
    /\ stdout # None
    /\ stdout.v.sources.v = [time |-> "cli", compact |-> "default",
                             no_bell |-> "config", bar_width |-> "config"]
    /\ stdout.v.bar_width = 15
    /\ stdout.v.no_bell

\* ---- C2 ----------------------------------------------------------------

\* C2: every failed invocation (one that ends neither with success nor with a
\* cancellation) ends with the argument-error exit status 2 and a
\* human-readable message, and has emitted no cursor-hide and rendered no stage.
C2_ErrorsAreArgumentErrors ==
    (pc = "exit" /\ exit_status # Some(0) /\ exit_status # Some(130)) =>
        /\ exit_status = Some(2)
        /\ stderr # ""
        /\ stderr # "Traceback (most recent call last)"
        /\ Positions("hide") = {}
        /\ Positions("header") \cup Positions("blank") = {}
        /\ line = None

\* ---- C3 ----------------------------------------------------------------

\* the stage list the claim describes, for n cycles
ClaimedStages(focus_seconds, rest_seconds, n) ==
    [p \in 1..(2 * n) |->
        IF p % 2 = 1
        THEN <<[kind |-> "Focus", cycle |-> (p + 1) \div 2, total |-> n], focus_seconds>>
        ELSE <<[kind |-> "Rest", cycle |-> p \div 2, total |-> n], rest_seconds>>]

\* stage begin/end events of the run so far
StageEvents == SelectSeq(out, LAMBDA e : e.ev \in {"header", "blank", "newline"})

\* C3: from the moment it is built and all through the run the stage list has
\* 2*(repeat_count+1) entries, ("Focus i/N", focus_seconds) at 2i-1 and
\* ("Rest i/N", rest_seconds) at 2i; stages begin in list order, each only
\* after the previous one has ended, and the line on the terminal names the
\* stage being run; every duration in the list is positive.
C3_StageSequence ==
    (pc \in InTry \/ (pc = "exit" /\ stages # <<>>)) =>
        /\ Len(stages) = 2 * (timer.repeats + 1)
        /\ stages = ClaimedStages(timer.focus_seconds, timer.rest_seconds,
                                  timer.repeats + 1)
        /\ \A p \in 1..Len(StageEvents) :
              /\ StageEvents[p].arg = (p + 1) \div 2
              /\ (p % 2 = 0) = (StageEvents[p].ev = "newline")
        /\ Len(StageEvents) \in {2 * index, 2 * index + 1}
        /\ \A p \in 1..Len(stages) : stages[p][2] > 0
        /\ (pc \in {"render", "sleep"} /\ line # None) =>
              line.v.stage = ClaimedStages(timer.focus_seconds, timer.rest_seconds,
                                           timer.repeats + 1)[index + 1][1]

\* a completed run of four stages
C3_Witness ==
    /\ pc = "exit"
    /\ exit_status = Some(0)
    /\ Len(stages) = 4
    /\ index = 4
    /\ timer.focus_seconds # timer.rest_seconds \/ timer.repeats = 1

\* ---- C4 ----------------------------------------------------------------

\* the command-line values pass validation
CliValuesValid ==
    LET norm == normalize_time_values(args.time)
    IN  /\ args.bar_width.some => parse_bar_width(args.bar_width.v).ok
        /\ norm.ok
        /\ norm.values.some =>
              /\ parse_duration(norm.values.v[1]).ok
              /\ parse_duration(norm.values.v[2]).ok
              /\ parse_repeat(norm.values.v[3]).ok

\* a finished --save-config invocation with no conflicting flag and valid CLI values
SaveConfigDone ==
    /\ pc = "exit"
    /\ args.save_config /\ ~args.write_config /\ ~args.status /\ ~args.force
    /\ CliValuesValid

\* the file --save-config must leave: CLI value if supplied, else the default
ExpectedSavedFile ==
    Table([k \in {"time", "compact", "no_bell", "bar_width"} |->
        CASE k = "time" ->
                 TArray([i \in 1..3 |->
                     TStr(IF args.time # <<>> THEN cli_time_values.v[i]
                          ELSE DocDefaultTime[i])])
          [] k = "compact" ->
                 TBool(IF args.compact.some THEN args.compact.v ELSE FALSE)
          [] k = "no_bell" ->
                 TBool(IF args.no_bell.some THEN args.no_bell.v ELSE FALSE)
          [] k = "bar_width" ->
                 TInt(IF args.bar_width.some THEN ns.bar_width.v ELSE 30)])

\* C4 as stated: whatever the previous file held (absent, valid or invalid),
\* --save-config with valid CLI values exits 0 and leaves exactly the CLI
\* values and built-in defaults in the file.
C4_SaveAlwaysSucceeds ==
    SaveConfigDone => (exit_status = Some(0) /\ file = ExpectedSavedFile)

\* C4 amended: if the previous file is absent or loads without error,
\* --save-config with valid CLI values exits 0 and leaves exactly the CLI
\* values and built-in defaults in the file, nothing of the previous file
\* carried over; if the previous file does not load, the invocation fails
\* with a non-zero exit status and leaves the file as it was.
C4_SaveOverValidFile ==
    SaveConfigDone =>
        IF load_config(file_before).kind = "ok"
        THEN exit_status = Some(0) /\ file = ExpectedSavedFile
        ELSE exit_status \notin {None, Some(0)} /\ file = file_before

\* a save over a file that held all four keys, none of them kept
C4_Witness ==
    /\ SaveConfigDone
    /\ file_before = Table([k \in allowed_keys |-> ConfigValue(k)])
    /\ args.time = <<>> /\ ~args.bar_width.some
    /\ args.compact = Some(FALSE) /\ args.no_bell = None
    /\ file.data["bar_width"].int = 30
    /\ file # file_before

\* ---- C5 ----------------------------------------------------------------

\* number of bells the countdown runner emitted for stage number i
RunnerBells(i) == Cardinality({p \in 1..Len(out) : out[p] = [ev |-> "bell", arg |-> i]})

StageFinished(i) == \E p \in 1..Len(out) : out[p] = [ev |-> "newline", arg |-> i]

\* C5: with no_bell resolved to true no bell is ever emitted, completion
\* included; with no_bell false the countdown runner emits exactly one bell
\* for each finished stage that is not the last of the sequence, at the render
\* that ends the stage (remaining 0) and before the next stage begins, and none
\* for the last stage.
C5_Bells ==
    (pc \in InTry \/ (pc = "exit" /\ stages # <<>>)) =>
        IF settings.no_bell
        THEN Positions("bell") = {}
        ELSE \A i \in 1..Len(stages) :
                /\ RunnerBells(i) =
                      IF StageFinished(i) /\ i < Len(stages) THEN 1 ELSE 0
                /\ \A p \in 1..Len(out) :
                      out[p] = [ev |-> "bell", arg |-> i] =>
                         /\ p < Len(out)
                         /\ out[p + 1] = [ev |-> "newline", arg |-> i]
                         /\ (p + 1 = Len(out) => remaining = Some(0))

\* a completed four-stage run with the bell enabled: three transition bells
C5_Witness ==
    /\ pc = "exit"
    /\ exit_status = Some(0)
    /\ Len(stages) = 4
    /\ ~settings.no_bell
    /\ RunnerBells(1) + RunnerBells(2) + RunnerBells(3) = 3
    /\ RunnerBells(4) = 0

\* ---- C6 ----------------------------------------------------------------

\* C6: once a user interrupt has been raised inside the run, the process is
\* at its exit with status 130, the cancellation notice is the last thing
\* printed before the cursor is restored, "Done!" is not printed, and no stage
\* was started or line rendered after the interrupt; an interrupt can arrive
\* at every point of a running stage.
C6_Cancellation ==
    /\ sigint =>
          /\ pc = "exit"
          /\ exit_status = Some(130)
          /\ Len(out) >= 2
          /\ out[Len(out) - 1].ev = "cancelled"
          /\ out[Len(out)].ev = "show"
          /\ Cardinality(Positions("cancelled")) = 1
          /\ Positions("done") = {}
          /\ Cardinality(Positions("header") \cup Positions("blank"))
                \in {index, index + 1}
    /\ pc \in {"render", "sleep"} => ENABLED Interrupt

\* a run cancelled in its second stage, after a render
C6_Witness ==
    /\ sigint
    /\ exit_status = Some(130)
    /\ index = 1
    /\ Len(stages) = 4
    /\ remaining # None /\ remaining # Some(0)

\* ---- C7 ----------------------------------------------------------------

\* C7: whenever the process has exited, on any path, every cursor-hide it
\* emitted is followed by a cursor-show and no cursor-hide follows the last
\* cursor-show.
C7_CursorRestored ==
    pc = "exit" =>
        \A p \in Positions("hide") : \E q \in Positions("show") : q > p

\* a cancelled run that had hidden the cursor
C7_Witness ==
    /\ pc = "exit"
    /\ exit_status = Some(130)
    /\ Positions("hide") # {}
    /\ line # None

\* ---- C8 ----------------------------------------------------------------

\* a finished --write-config [--force] invocation with no timer option
WriteConfigDone ==
    /\ pc = "exit"
    /\ args.write_config /\ ~args.status /\ ~args.save_config
    /\ args.time = <<>> /\ ~args.compact.some /\ ~args.no_bell.some
    /\ ~args.bar_width.some

\* C8: in any sequence of invocations, --write-config with no timer option
\* fails with AlreadyExists and leaves the file unchanged if the file exists
\* and --force is absent; otherwise it succeeds and the file holds exactly the
\* built-in defaults whatever it held before.
C8_WriteConfig ==
    WriteConfigDone =>
        IF file_before # Absent /\ ~args.force
        THEN /\ exit_status = Some(2)
             /\ stderr = "config file already exists"
             /\ file = file_before
        ELSE /\ exit_status = Some(0)
             /\ file = DocDefaults

\* --write-config --force over a file that held other values
C8_Witness ==
    /\ WriteConfigDone
    /\ args.force
    /\ file_before \notin {Absent, DocDefaults}
    /\ file_before \notin InitialFiles
    /\ file = DocDefaults

\* ---- C9 ----------------------------------------------------------------

\* the text with surrounding blanks removed and upper-case letters lowered
Core(v) ==
    LET inked == {p \in 1..Len(v) : v[p] # " "}
        first == CHOOSE p \in inked : \A q \in inked : p <= q
        last  == CHOOSE p \in inked : \A q \in inked : q <= p
    IN  IF inked = {} THEN <<>>
        ELSE [p \in 1..(last - first + 1) |->
                 LET c == v[first + p - 1]
                 IN  IF c = "S" THEN "s" ELSE IF c = "M" THEN "m" ELSE c]

\* the number of leading digits k when t matches ^\d+[sm]?$, else 0
MatchedDigits(t) ==
    LET ks == {k \in 1..Len(t) :
                 /\ \A p \in 1..k : t[p] \in {"0", "1", "2", "3", "4", "5", "6", "7", "8", "9"}
                 /\ \/ k = Len(t)
                    \/ k = Len(t) - 1 /\ t[Len(t)] \in {"s", "m"}}
    IN  IF ks = {} THEN 0 ELSE CHOOSE k \in ks : TRUE

RECURSIVE Pow10(_)
Pow10(n) == IF n = 0 THEN 1 ELSE 10 * Pow10(n - 1)

\* the decimal number written by the first k characters of t
RECURSIVE Decimal(_, _)
Decimal(t, k) ==
    IF k = 0 THEN 0
    ELSE DigitValue(t[1]) * Pow10(k - 1) + Decimal(Tail(t), k - 1)

\* C9: after trimming and lower-casing, a text matching ^\d+[sm]?$ with an
\* amount above 0 parses to amount*60 (suffix m or none) or amount (suffix s),
\* a positive integer; with amount 0 it fails with NonPositive; a text that
\* does not match fails with InvalidFormat.
C9_ParseDuration ==
    pc = "return" =>
        LET t == Core(value)
            k == MatchedDigits(t)
            amount == Decimal(t, k)
            r == result.v
        IN  IF k = 0
            THEN ~r.ok /\ r.msg = "invalid time format. Use N, Ns, or Nm (examples: 25, 25m, 1500s)."
            ELSE IF amount = 0
            THEN ~r.ok /\ r.msg = "time must be greater than zero."
            ELSE /\ r.ok
                 /\ r.val = IF t[Len(t)] = "s" THEN amount ELSE amount * 60
                 /\ r.val \in Nat \ {0}

\* " 2S" parses to two seconds
C9_Witness ==
    /\ pc = "return"
    /\ value = <<" ", "2", "S">>
    /\ result = Some([ok |-> TRUE, val |-> 2, msg |-> ""])

\* ---- C10 ---------------------------------------------------------------

\* duration of the stage whose countdown line was rendered last
RenderedStageSeconds ==
    IF pc = "for_stage" THEN stages[index][2] ELSE stages[index + 1][2]

\* the state right after a render: the clock still reads what the render read
AfterRender == pc \in {"sleep", "for_stage"} /\ remaining # None

\* what a render must show at clock reading `now`
ShownAt(now) ==
    LET whole == (now - start_monotonic) \div TicksPerSecond
        left  == RenderedStageSeconds - whole
    IN  IF left > 0 THEN left ELSE 0

\* the stage under way ends within the observed horizon if the process keeps running
StageFitsHorizon ==
    /\ pc \in {"render", "sleep"}
    /\ start_monotonic + (stages[index + 1][2] + 1) * TicksPerSecond - 1 <= MaxClock

C10_RenderInvariant ==
    /\ pc = "sleep" => (line # None /\ remaining # None)
    /\ AfterRender =>
          /\ remaining.v = ShownAt(clock)
          /\ line.v.remaining = <<remaining.v \div 3600, (remaining.v % 3600) \div 60,
                                  remaining.v % 60>>
          /\ pc = "sleep" => remaining.v > 0
          /\ pc = "for_stage" => remaining.v = 0

\* C10: within a stage of duration D > 0 the first render precedes any sleep;
\* every render shows max(0, D - floor(now - start)); the shown value never
\* increases from one render to the next; the loop goes on after a render
\* showing more than 0 and ends at the first render showing 0; and while the
\* process keeps running the stage ends.
C10_Countdown ==
    /\ []C10_RenderInvariant
    /\ [][(remaining # None /\ remaining' # None) => remaining'.v <= remaining.v]_vars
    /\ StageFitsHorizon ~> (pc \notin {"render", "sleep"})

\* a Rest stage of two seconds whose last render came late, after the Focus
\* stage before it had ended
C10_Witness ==
    /\ pc = "for_stage"
    /\ index = 2
    /\ stages[2][2] = 2
    /\ remaining = Some(0)
    /\ clock - start_monotonic > 2 * TicksPerSecond

=============================================================================
